---- MODULE Spec2Model ----
(***************************************************************************)
(* Verification model of SMCloudStore: the Backblaze B2 single-file        *)
(* upload (B2Upload), the B2 authorization handshake, the paginated        *)
(* listObjects of the AWS S3 and Google Cloud Storage providers, the       *)
(* put/get round trip and the container operations of the providers,       *)
(* ExtractFromStream, and SMCloudStore.Create.                             *)
(*                                                                         *)
(* Each subsystem has its own specification (SpecUpload, SpecAuth,         *)
(* SpecList, SpecRound, SpecStream, SpecContainer, SpecCreate); the        *)
(* variables of the other subsystems stay at their initial value.          *)
(***************************************************************************)
EXTENDS Integers, Sequences, FiniteSets, TLC

VARIABLES
    \* ---- B2Upload (packages/backblaze-b2/src/B2Upload.ts)
    uData,          \* kind of this.data: "string", "buffer", "stream", "other"
    uMetadata,      \* this.metadata: the keys, in insertion order
    uPc,            \* position of the upload: "new", "getUploadUrl", "uploadFile", "waiting", "settled"
    retryCounter,   \* the local retryCounter of every putFile invocation, oldest first
    uCalls,         \* backend calls issued so far, oldest first
    uDelays,        \* the delays passed to WaitPromise so far, oldest first
    uFailures,      \* the errors of the failed attempts so far, oldest first
    uPromise        \* the promise returned by start(): state, error, value

VARIABLES
    \* ---- BackblazeB2Provider authorization (unnamed/part_014)
    isAuthorized,   \* this._isAuthorized
    opPc,           \* position of every operation: "idle", "authorizing", "request", "done", "failed"
    authLog,        \* the client.authorize() calls issued so far: the operation and the outcome
    opsStarted      \* number of operations started on the instance

VARIABLES
    \* ---- listObjects of AwsS3Provider and GoogleCloudStorageProvider
    lProvider,      \* "aws" or "gcs"
    lStore,         \* the object paths stored in the container
    lPrefix,        \* the prefix argument
    lPageSize,      \* entries the backend returns per page
    lPc,            \* "new", "request", "settled"
    lRequests,      \* the continuation token of every request sent, oldest first (0: none)
    lList,          \* the list accumulated by the call
    lPromise        \* the promise returned by listObjects

VARIABLES
    \* ---- ExtractFromStream on a Readable stream (packages/core/src/StreamUtils.ts)
    sContent,       \* the bytes the stream delivers in total
    sSource,        \* the bytes the underlying resource has not pushed yet
    sBuffer,        \* the internal buffer of the stream (_readableState.buffer)
    sEnded,         \* _readableState.ended: the resource has pushed the end of the data
    sReading,       \* the stream has started to read from the resource
    sReadable,      \* a 'readable' event is scheduled
    sErrored,       \* the stream has emitted 'error'
    sPeeks,         \* the calls of ExtractFromStream: size, state, value
    sDrainPc,       \* the consumer that drains the stream: "none", "draining", "done"
    sDrained        \* the bytes the draining consumer has received

VARIABLES
    \* ---- putObject followed by getObjectAsBuffer, for every provider
    rProvider,      \* "aws", "gcs", "generic-s3", "azure", "backblaze-b2"
    rKind,          \* kind of the data argument: "buffer", "string", "stream"
    rData,          \* the data: bytes of a Buffer or stream, code points of a string
    rPutPc,         \* "new", "sent", "lost", "settled"
    rPut,           \* the promise returned by putObject
    rStore,         \* the bytes the backend holds for the object
    rGetPc,         \* "new", "streaming", "settled"
    rLeft,          \* the bytes the stream of getObject has not emitted yet
    buffersCache,   \* StreamToBuffer: the chunks received
    rGet,           \* the promise returned by getObjectAsBuffer
    rListPc,        \* "new", "sent", "settled"
    rList           \* the promise returned by listObjects, with its list

VARIABLES
    \* ---- createContainer, containerExists, ensureContainer on one container name
    cProvider,      \* the provider the calls are made on
    cOwned,         \* the container exists in the account
    cForeign,       \* the name belongs to a bucket of another account
    cOps            \* the calls made so far, oldest first, each with its position

VARIABLES
    \* ---- SMCloudStore.Create
    kCalls          \* the calls of Create made so far, with their arguments and outcome

VARIABLES
    \* ---- AzureStorageProvider.listObjects (unnamed/part_004)
    zStore,         \* the blob names stored in the container
    zPrefix,        \* the prefix argument
    zPageSize,      \* entries the backend returns per page
    zPc,            \* "new", "running"
    zWalk,          \* for the walk of each type: its state and continuation token
    resultList,     \* the list both walks push to
    zPromise        \* the promise returned by listObjects

uploadVars == <<uData, uMetadata, uPc, retryCounter, uCalls, uDelays, uFailures, uPromise>>
authVars == <<isAuthorized, opPc, authLog, opsStarted>>

listVars == <<lProvider, lStore, lPrefix, lPageSize, lPc, lRequests, lList, lPromise>>

streamVars == <<sContent, sSource, sBuffer, sEnded, sReading, sReadable, sErrored,
                sPeeks, sDrainPc, sDrained>>

roundVars == <<rProvider, rKind, rData, rPutPc, rPut, rStore, rGetPc, rLeft, buffersCache, rGet,
              rListPc, rList>>

containerVars == <<cProvider, cOwned, cForeign, cOps>>

createVars == <<kCalls>>

azureListVars == <<zStore, zPrefix, zPageSize, zPc, zWalk, resultList, zPromise>>

vars == <<uploadVars, authVars, listVars, streamVars, roundVars, containerVars, createVars, azureListVars>>

\* What the actions of one subsystem leave alone
exceptUpload == <<authVars, listVars, streamVars, roundVars, containerVars, createVars, azureListVars>>
exceptAuth == <<uploadVars, listVars, streamVars, roundVars, containerVars, createVars, azureListVars>>
exceptList == <<uploadVars, authVars, streamVars, roundVars, containerVars, createVars, azureListVars>>
exceptStream == <<uploadVars, authVars, listVars, roundVars, containerVars, createVars, azureListVars>>
exceptRound == <<uploadVars, authVars, listVars, streamVars, containerVars, createVars, azureListVars>>
exceptContainer == <<uploadVars, authVars, listVars, streamVars, roundVars, createVars, azureListVars>>
exceptCreate == <<uploadVars, authVars, listVars, streamVars, roundVars, containerVars, azureListVars>>
exceptAzureList == <<uploadVars, authVars, listVars, streamVars, roundVars, containerVars, createVars>>

(***************************************************************************)
(* Bounds of the model                                                     *)
(***************************************************************************)
\* putFile invocations explored for one upload
MaxInvocations == 6
\* operations started on one BackblazeB2Provider instance
MaxOps == 4
\* largest page size of the listing backend
MaxPageSize == 2
\* page requests explored for one listObjects call
MaxRequests == 8
\* longest stream content, in bytes
MaxLen == 3
\* calls of ExtractFromStream on one stream
MaxPeeks == 2
\* longest data given to putObject, in bytes or characters
MaxData == 2
\* calls of the container operations on one provider instance
MaxContainerOps == 2
\* calls of SMCloudStore.Create
MaxCreates == 2

(***************************************************************************)
(* Strings are sequences of characters, so that prefixes, matches and      *)
(* concatenations are computed.                                            *)
(***************************************************************************)
StartsWith(s, p) == Len(s) >= Len(p) /\ SubSeq(s, 1, Len(p)) = p

\* String.prototype.substr(0, n)
Substr0(s, n) == IF Len(s) <= n THEN s ELSE SubSeq(s, 1, n)

UpperCase == {"A", "B", "C", "E", "I", "N", "O", "P", "T", "X", "Y"}
LowerCase == {"a", "b", "c", "e", "f", "k", "n", "o", "p", "t", "y", "z"}
Digits == {"0", "1", "2", "3", "4", "5", "6", "7", "8", "9"}

ContentTypeKey == <<"C", "o", "n", "t", "e", "n", "t", "-", "T", "y", "p", "e">>
ContentTypeLower == <<"c", "o", "n", "t", "e", "n", "t", "-", "t", "y", "p", "e">>
ContentTypeUpper == <<"C", "O", "N", "T", "E", "N", "T", "-", "T", "Y", "P", "E">>
InfoPrefix == <<"X", "-", "B", "z", "-", "I", "n", "f", "o", "-">>

\* Metadata keys used as inputs
CustomKey(d) == <<"k", d>>
BadKey == <<"k", "_", "a">>
PrefixedKey == InfoPrefix \o <<"k", "0">>
DigitSeq == <<"0", "1", "2", "3", "4", "5", "6", "7", "8", "9", "a">>
CustomKeys(n) == [i \in 1..n |-> CustomKey(DigitSeq[i])]

MetadataInputs ==
    { CustomKeys(n) : n \in {0, 1, 2, 10, 11} }
    \cup { <<ContentTypeKey>> \o CustomKeys(n) : n \in {0, 1, 10, 11} }
    \cup { CustomKeys(n) \o <<ContentTypeKey>> : n \in {10} }
    \cup { <<BadKey>>, <<CustomKey("0"), BadKey>>, <<ContentTypeKey, BadKey>>,
           <<PrefixedKey>>, <<PrefixedKey, CustomKey("0")>>, <<PrefixedKey, CustomKey("1")>>,
           <<ContentTypeLower>>, <<ContentTypeUpper>>, <<ContentTypeLower, CustomKey("0")>> }

DataKinds == {"string", "buffer", "stream", "other"}

(***************************************************************************)
(* B2Upload                                                                *)
(***************************************************************************)
\* static Retries = 3
Retries == 3

\* static ChunkSize = 20 * 1024 * 1024
ChunkSize == 20 * 1024 * 1024

NoError == [msg |-> "", attempt |-> 0]
Pending == [state |-> "pending", err |-> NoError]
Resolved == [state |-> "resolved", err |-> NoError]
Rejected(e) == [state |-> "rejected", err |-> e]

\* IsStream(val): typeof val == 'object' && typeof val.pipe == 'function'
IsStream(kind) == kind = "stream"

\* key.match('^[A-Za-z0-9\-]+$')
KeyMatches(key) ==
    /\ Len(key) >= 1
    /\ \A i \in 1..Len(key) : key[i] \in UpperCase \cup LowerCase \cup Digits \cup {"-"}

\* The metadata loop of putFile, run over the first n keys: the headers counted (i),
\* the info map (its keys), the mime type and the error thrown, if any.
RECURSIVE MetadataLoop(_, _)
MetadataLoop(meta, n) ==
    IF n = 0
    THEN [i |-> 0, info |-> {}, mime |-> "application/octet-stream", thrown |-> ""]
    ELSE LET prev == MetadataLoop(meta, n - 1)
             key == meta[n]
         IN  IF prev.thrown # "" THEN prev
             ELSE IF key = ContentTypeKey
                  THEN [prev EXCEPT !.mime = "metadata[Content-Type]"]
             ELSE IF prev.i = 10
                  THEN [prev EXCEPT !.thrown = "Cannot send more than 10 custom headers"]
             ELSE IF ~KeyMatches(key)
                  THEN [prev EXCEPT !.thrown = "Invalid header format: must be A-Za-z0-9"]
             ELSE IF Substr0(key, 10) # InfoPrefix
                  THEN [prev EXCEPT !.info = @ \cup {InfoPrefix \o key}, !.i = @ + 1]
                  ELSE [prev EXCEPT !.info = @ \cup {key}, !.i = @ + 1]

\* As a metadata loop that neither counts the headers nor looks for the prefix
RequestArgsUnchecked(meta) ==
    [i |-> Len(meta), info |-> { InfoPrefix \o meta[k] : k \in 1..Len(meta) },
     mime |-> "application/octet-stream", thrown |-> ""]

RequestArgs(meta) == MetadataLoop(meta, Len(meta))

\* Number of the putFile invocation that is running
Invocation == Len(retryCounter)

CallsOf(op) == { k \in 1..Len(uCalls) : uCalls[k].op = op }

\* As a putFile that keeps the upload url and token of the first getUploadUrl call
ResponseDataCached(invocation) ==
    CHOOSE k \in CallsOf("getUploadUrl") : \A j \in CallsOf("getUploadUrl") : k <= j

\* response.data of the getUploadUrl call of a putFile invocation: the upload url and
\* authorization token it carries, identified by the position of that call in uCalls
ResponseData(invocation) ==
    CHOOSE k \in CallsOf("getUploadUrl") : uCalls[k].invocation = invocation

\* The .catch handler of putFile, run in invocation Invocation with error err
CatchHandler(err) ==
    /\ uFailures' = Append(uFailures, err)
    /\ IF retryCounter[Invocation] < Retries
       THEN /\ retryCounter' = [retryCounter EXCEPT ![Invocation] = @ + 1]
            /\ uDelays' = Append(uDelays, (retryCounter[Invocation] + 1 + 1) * 500)
            /\ uPc' = "waiting"
            /\ UNCHANGED uPromise
       ELSE /\ uPromise' = Rejected(err)
            /\ uPc' = "settled"
            /\ UNCHANGED <<retryCounter, uDelays>>

\* putFile(): a new invocation with its own retryCounter; it requests the upload url
PutFile ==
    /\ retryCounter' = Append(retryCounter, 0)
    /\ uCalls' = Append(uCalls, [op |-> "getUploadUrl", invocation |-> Len(retryCounter) + 1, uploadUrl |-> 0])
    /\ uPc' = "getUploadUrl"

\* start()
Start ==
    /\ uPc = "new"
    /\ IF uData \in {"string", "buffer"}
       THEN /\ PutFile
            /\ UNCHANGED <<uDelays, uFailures, uPromise>>
       ELSE IF IsStream(uData)
       THEN /\ uPromise' = Rejected([msg |-> "putObject requires a Stream, a Buffer or a string", attempt |-> 0])
            /\ uPc' = "settled"
            /\ UNCHANGED <<retryCounter, uCalls, uDelays, uFailures>>
       ELSE IF ChunkSize < 5 * 1024 * 1024
       THEN /\ uPromise' = Rejected([msg |-> "chunkSize must be at least 5MB", attempt |-> 0])
            /\ uPc' = "settled"
            /\ UNCHANGED <<retryCounter, uCalls, uDelays, uFailures>>
       ELSE \* start() returns undefined: the promise of putObject resolves
            /\ uPromise' = Resolved
            /\ uPc' = "settled"
            /\ UNCHANGED <<retryCounter, uCalls, uDelays, uFailures>>
    /\ UNCHANGED <<uData, uMetadata, exceptUpload>>

\* The response of client.getUploadUrl arrives: outcome is "ok", "invalid" or "error"
GetUploadUrlResponse(outcome) ==
    /\ uPc = "getUploadUrl"
    /\ IF outcome = "error"
       THEN /\ CatchHandler([msg |-> "getUploadUrl failed", attempt |-> Invocation])
            /\ UNCHANGED uCalls
       ELSE IF outcome = "invalid"
       THEN /\ CatchHandler([msg |-> "Invalid response when requesting the upload url and upload authorization token", attempt |-> Invocation])
            /\ UNCHANGED uCalls
       ELSE IF RequestArgs(uMetadata).thrown # ""
       THEN /\ CatchHandler([msg |-> RequestArgs(uMetadata).thrown, attempt |-> Invocation])
            /\ UNCHANGED uCalls
       ELSE /\ uCalls' = Append(uCalls, [op |-> "uploadFile", invocation |-> Invocation,
                                         uploadUrl |-> ResponseData(Invocation)])
            /\ uPc' = "uploadFile"
            /\ UNCHANGED <<retryCounter, uDelays, uFailures, uPromise>>
    /\ UNCHANGED <<uData, uMetadata, exceptUpload>>

\* The response of client.uploadFile arrives
UploadFileResponse(ok) ==
    /\ uPc = "uploadFile"
    /\ IF ok
       THEN /\ uPromise' = Resolved
            /\ uPc' = "settled"
            /\ UNCHANGED <<retryCounter, uDelays, uFailures>>
       ELSE CatchHandler([msg |-> "uploadFile failed", attempt |-> Invocation])
    /\ UNCHANGED <<uData, uMetadata, uCalls, exceptUpload>>

\* WaitPromise elapses: .then(() => this.putFile())
WaitElapsed ==
    /\ uPc = "waiting"
    /\ Invocation < MaxInvocations
    /\ PutFile
    /\ UNCHANGED <<uData, uMetadata, uDelays, uFailures, uPromise, exceptUpload>>

UploadIdle ==
    /\ uData = "buffer"
    /\ uMetadata = << >>
    /\ uPc = "new"
    /\ retryCounter = << >>
    /\ uCalls = << >>
    /\ uDelays = << >>
    /\ uFailures = << >>
    /\ uPromise = Pending

UploadInputs ==
    /\ uData \in DataKinds
    /\ uMetadata \in MetadataInputs
    /\ uPc = "new"
    /\ retryCounter = << >>
    /\ uCalls = << >>
    /\ uDelays = << >>
    /\ uFailures = << >>
    /\ uPromise = Pending

(***************************************************************************)
(* BackblazeB2Provider: authorization on the first asynchronous call       *)
(***************************************************************************)
\* Operations that run concurrently on one provider instance
Ops == 1..3

AuthIdle ==
    /\ isAuthorized = FALSE
    /\ opPc = [i \in Ops |-> "idle"]
    /\ authLog = << >>
    /\ opsStarted = 0


\* _ensureAuthorized(), called by operation i: the calls to client.authorize() it adds
EnsureAuthorized(i) ==
    IF isAuthorized
    THEN << >>
    ELSE << [op |-> i, state |-> "pending"] >>

\* An operation (createContainer, listContainers, _getBucketId) starts:
\* this._ensureAuthorized().then(() => this._client.<request>)
OpStart(i) ==
    /\ opPc[i] \in {"idle", "done", "failed"}
    /\ opsStarted < MaxOps
    /\ opsStarted' = opsStarted + 1
    /\ authLog' = authLog \o EnsureAuthorized(i)
    /\ opPc' = [opPc EXCEPT ![i] = IF EnsureAuthorized(i) = << >> THEN "request" ELSE "authorizing"]
    /\ UNCHANGED <<isAuthorized, exceptAuth>>

PendingAuth(i) == { k \in 1..Len(authLog) : authLog[k].op = i /\ authLog[k].state = "pending" }

\* client.authorize() of operation i settles
AuthorizeResponse(i, ok) ==
    /\ opPc[i] = "authorizing"
    /\ \E k \in PendingAuth(i) :
         authLog' = [authLog EXCEPT ![k].state = IF ok THEN "ok" ELSE "failed"]
    /\ opPc' = [opPc EXCEPT ![i] = IF ok THEN "request" ELSE "failed"]
    /\ UNCHANGED <<isAuthorized, opsStarted, exceptAuth>>

\* The request of operation i (listBuckets, createBucket) settles
RequestResponse(i, ok) ==
    /\ opPc[i] = "request"
    /\ opPc' = [opPc EXCEPT ![i] = IF ok THEN "done" ELSE "failed"]
    /\ UNCHANGED <<isAuthorized, authLog, opsStarted, exceptAuth>>

NextAuth ==
    \/ \E i \in Ops : OpStart(i)
    \/ \E i \in Ops, ok \in BOOLEAN : AuthorizeResponse(i, ok)
    \/ \E i \in Ops, ok \in BOOLEAN : RequestResponse(i, ok)

(***************************************************************************)
(* The listing backend: one page at a time, with a continuation token      *)
(***************************************************************************)
Min(a, b) == IF a <= b THEN a ELSE b

Range(q) == { q[k] : k \in 1..Len(q) }

\* Code units in increasing order
Alphabet == <<"/", "a", "b", "d", "e", "z">>
Rank(c) == CHOOSE k \in 1..Len(Alphabet) : Alphabet[k] = c

\* Lexicographic order of strings
LexLess(s, t) ==
    \E k \in 1..(Min(Len(s), Len(t)) + 1) :
        /\ \A j \in 1..(k - 1) : s[j] = t[j]
        /\ IF k > Len(s) THEN k <= Len(t)
           ELSE k <= Len(t) /\ Rank(s[k]) < Rank(t[k])

\* Paths a container may hold, and the prefixes asked for
Paths == { <<"a">>, <<"b">>, <<"d", "/", "a">>, <<"d", "/", "b">>,
           <<"d", "/", "e", "/", "a">>, <<"e", "/", "a">> }
Prefixes == { << >>, <<"d", "/">>, <<"d", "/", "e", "/">>, <<"d">>, <<"z">> }

\* String.prototype.indexOf('/', from): position (from 1) of the first '/' after
\* the first `from` characters, 0 when there is none
IndexOfSlash(s, from) ==
    IF \E j \in (from + 1)..Len(s) : s[j] = "/"
    THEN CHOOSE j \in (from + 1)..Len(s) :
            s[j] = "/" /\ \A i \in (from + 1)..(j - 1) : s[i] # "/"
    ELSE 0

ObjectEntry(path) == [type |-> "object", name |-> path]
PrefixEntry(prefix) == [type |-> "prefix", name |-> prefix]

\* What the backend lists for (prefix, delimiter '/'): the keys below the prefix,
\* the keys with a further delimiter rolled up into their common prefix
BackendEntries(store, prefix) ==
    { IF IndexOfSlash(p, Len(prefix)) = 0
      THEN ObjectEntry(p)
      ELSE PrefixEntry(SubSeq(p, 1, IndexOfSlash(p, Len(prefix))))
      : p \in { q \in store : StartsWith(q, prefix) } }

RECURSIVE SortByName(_)
SortByName(S) ==
    IF S = {} THEN << >>
    ELSE LET m == CHOOSE x \in S : \A y \in S \ {x} : LexLess(x.name, y.name)
         IN  <<m>> \o SortByName(S \ {m})

BackendListing(store, prefix) == SortByName(BackendEntries(store, prefix))

\* The page that follows the first `token` entries
BackendPage(store, prefix, size, token) ==
    SubSeq(BackendListing(store, prefix), token + 1,
           Min(token + size, Len(BackendListing(store, prefix))))

\* The cursor of the page after this one, 0 when this page is the last
NextToken(store, prefix, size, token) ==
    IF token + size < Len(BackendListing(store, prefix)) THEN token + size ELSE 0

IsObject(e) == e.type = "object"
IsPrefix(e) == e.type = "prefix"

\* S3 ListObjectsV2 output: ContinuationToken echoes the token of the request,
\* NextContinuationToken is the cursor of the next page
S3ListObjectsV2(store, prefix, size, token) ==
    [ Contents |-> SelectSeq(BackendPage(store, prefix, size, token), IsObject),
      CommonPrefixes |-> SelectSeq(BackendPage(store, prefix, size, token), IsPrefix),
      KeyCount |-> Len(BackendPage(store, prefix, size, token)),
      ContinuationToken |-> token,
      NextContinuationToken |-> NextToken(store, prefix, size, token),
      IsTruncated |-> NextToken(store, prefix, size, token) # 0 ]

\* bucket.getFiles(opts, callback): files, nextQuery and apiResponse.prefixes
GcsGetFiles(store, prefix, size, token) ==
    [ files |-> SelectSeq(BackendPage(store, prefix, size, token), IsObject),
      prefixes |-> SelectSeq(BackendPage(store, prefix, size, token), IsPrefix),
      nextQuery |-> NextToken(store, prefix, size, token) ]

(***************************************************************************)
(* listObjects                                                             *)
(***************************************************************************)
ListError(m) == [msg |-> m, attempt |-> 0]

\* The token of the request that is outstanding
CurrentToken == lRequests[Len(lRequests)]

\* listObjects(container, prefix): makeRequest() / requestPromise(null)
ListObjects ==
    /\ lPc = "new"
    /\ lRequests' = <<0>>
    /\ lPc' = "request"
    /\ UNCHANGED <<lProvider, lStore, lPrefix, lPageSize, lList, lPromise, exceptList>>

\* The token AwsS3Provider.listObjects continues with, 0 to stop
AwsContinuation(data) == data.ContinuationToken

\* AwsS3Provider.listObjects: the callback of this._client.listObjectsV2
AwsListResponse(err) ==
    /\ lProvider = "aws"
    /\ lPc = "request"
    /\ LET data == S3ListObjectsV2(lStore, lPrefix, lPageSize, CurrentToken)
       IN  IF err
           THEN /\ lPromise' = Rejected(ListError("backend error"))
                /\ lPc' = "settled"
                /\ UNCHANGED <<lList, lRequests>>
           ELSE IF data.KeyCount = 0
           THEN /\ lPromise' = Rejected(ListError("Invalid response while putting object"))
                /\ lPc' = "settled"
                /\ UNCHANGED <<lList, lRequests>>
           ELSE /\ lList' = lList \o data.Contents \o data.CommonPrefixes
                /\ IF AwsContinuation(data) # 0
                   THEN /\ Len(lRequests) < MaxRequests
                        /\ lRequests' = Append(lRequests, AwsContinuation(data))
                        /\ UNCHANGED <<lPc, lPromise>>
                   ELSE /\ lPromise' = Resolved
                        /\ lPc' = "settled"
                        /\ UNCHANGED lRequests
    /\ UNCHANGED <<lProvider, lStore, lPrefix, lPageSize, exceptList>>

\* The query GoogleCloudStorageProvider.listObjects continues with, 0 to stop
GcsContinuation(response) == response.nextQuery

\* GoogleCloudStorageProvider.listObjects: the callback of getFiles
GcsListResponse(err) ==
    /\ lProvider = "gcs"
    /\ lPc = "request"
    /\ LET response == GcsGetFiles(lStore, lPrefix, lPageSize, CurrentToken)
       IN  IF err
           THEN /\ lPromise' = Rejected(ListError("backend error"))
                /\ lPc' = "settled"
                /\ UNCHANGED <<lList, lRequests>>
           ELSE /\ lList' = lList \o response.files \o response.prefixes
                /\ IF GcsContinuation(response) # 0
                   THEN /\ Len(lRequests) < MaxRequests
                        /\ lRequests' = Append(lRequests, GcsContinuation(response))
                        /\ UNCHANGED <<lPc, lPromise>>
                   ELSE /\ lPromise' = Resolved
                        /\ lPc' = "settled"
                        /\ UNCHANGED lRequests
    /\ UNCHANGED <<lProvider, lStore, lPrefix, lPageSize, exceptList>>

\* b2_list_file_names: a page of files and folders, and the name the next page
\* starts at (0: there is none)
B2ListFileNames(store, prefix, size, startFileName) ==
    [ files |-> BackendPage(store, prefix, size, startFileName),
      nextFileName |-> NextToken(store, prefix, size, startFileName) ]

\* The start position in the arguments requestList(bucketId, startFileName) passes to
\* this._client.listFileNames: bucketId, prefix, delimiter and maxFileCount only
ListFileNamesStart(startFileName) == 0

\* BackblazeB2Provider.listObjects(container, prefix): this._getBucketId(container)
B2ListObjects ==
    /\ lProvider = "backblaze-b2"
    /\ lPc = "new"
    /\ lPc' = "bucketId"
    /\ UNCHANGED <<lProvider, lStore, lPrefix, lPageSize, lRequests, lList, lPromise, exceptList>>

\* The promise of _getBucketId settles: rejected ("error"), null ("missing") or the
\* id of the bucket ("found"), and then requestList(bucketId, null)
B2GetBucketIdSettles(outcome) ==
    /\ lProvider = "backblaze-b2"
    /\ lPc = "bucketId"
    /\ IF outcome = "error"
       THEN /\ lPromise' = Rejected(ListError("backend error"))
            /\ lPc' = "settled"
            /\ UNCHANGED lRequests
       ELSE IF outcome = "missing"
       THEN /\ lPromise' = Rejected(ListError("Container not found"))
            /\ lPc' = "settled"
            /\ UNCHANGED lRequests
       ELSE /\ lRequests' = <<ListFileNamesStart(0)>>
            /\ lPc' = "request"
            /\ UNCHANGED lPromise
    /\ UNCHANGED <<lProvider, lStore, lPrefix, lPageSize, lList, exceptList>>

\* requestList: the then handler of this._client.listFileNames, and its rejection
B2ListFileNamesAnswer(outcome) ==
    /\ lProvider = "backblaze-b2"
    /\ lPc = "request"
    /\ LET response == B2ListFileNames(lStore, lPrefix, lPageSize, CurrentToken)
       IN  IF outcome = "error"
           THEN /\ lPromise' = Rejected(ListError("backend error"))
                /\ lPc' = "settled"
                /\ UNCHANGED <<lList, lRequests>>
           ELSE IF outcome = "invalid"
           THEN /\ lPromise' = Rejected(ListError("Invalid response when listing the container"))
                /\ lPc' = "settled"
                /\ UNCHANGED <<lList, lRequests>>
           ELSE /\ lList' = lList \o response.files
                /\ IF response.nextFileName # 0
                   THEN /\ Len(lRequests) < MaxRequests
                        /\ lRequests' = Append(lRequests, ListFileNamesStart(response.nextFileName))
                        /\ UNCHANGED <<lPc, lPromise>>
                   ELSE /\ lPromise' = Resolved
                        /\ lPc' = "settled"
                        /\ UNCHANGED lRequests
    /\ UNCHANGED <<lProvider, lStore, lPrefix, lPageSize, exceptList>>

ListIdle ==
    /\ lProvider = "aws"
    /\ lStore = {}
    /\ lPrefix = << >>
    /\ lPageSize = 1
    /\ lPc = "new"
    /\ lRequests = << >>
    /\ lList = << >>
    /\ lPromise = Pending

ListInputs ==
    /\ lProvider \in {"aws", "gcs"}
    /\ lStore \in SUBSET Paths
    /\ lPrefix \in Prefixes
    /\ lPageSize \in 1..MaxPageSize
    /\ lPc = "new"
    /\ lRequests = << >>
    /\ lList = << >>
    /\ lPromise = Pending

B2ListInputs ==
    /\ lProvider = "backblaze-b2"
    /\ lStore \in SUBSET Paths
    /\ lPrefix \in Prefixes
    /\ lPageSize \in 1..MaxPageSize
    /\ lPc = "new"
    /\ lRequests = << >>
    /\ lList = << >>
    /\ lPromise = Pending

NextB2List ==
    \/ B2ListObjects
    \/ \E outcome \in {"found", "missing", "error"} : B2GetBucketIdSettles(outcome)
    \/ \E outcome \in {"ok", "invalid", "error"} : B2ListFileNamesAnswer(outcome)

NextList ==
    \/ ListObjects
    \/ \E err \in BOOLEAN : AwsListResponse(err)
    \/ \E err \in BOOLEAN : GcsListResponse(err)

(***************************************************************************)
(* A Readable stream in paused mode, and ExtractFromStream                 *)
(***************************************************************************)
Take(q, n) == SubSeq(q, 1, Min(n, Len(q)))
Drop(q, n) == SubSeq(q, Min(n, Len(q)) + 1, Len(q))

\* The content of a stream of n bytes: every byte is distinct
Content(n) == [i \in 1..n |-> i]

Null == [null |-> TRUE, bytes |-> << >>, rest |-> << >>]

\* stream.read(size): the data returned (null when there is not enough data and the
\* stream has not ended, when size is 0, or when nothing is left) and the buffer left
StreamRead(buffer, ended, size) ==
    IF size <= 0 \/ (Len(buffer) = 0 /\ ended)
    THEN [Null EXCEPT !.rest = buffer]
    ELSE IF size <= Len(buffer)
    THEN [null |-> FALSE, bytes |-> Take(buffer, size), rest |-> Drop(buffer, size)]
    ELSE IF ~ended
    THEN [Null EXCEPT !.rest = buffer]
    ELSE [null |-> FALSE, bytes |-> buffer, rest |-> << >>]

\* As stream.push(data): the data goes to the end of the buffer
UnshiftAtEnd(data, buffer) == buffer \o data

\* As a read that consumes: the data is not put back
UnshiftDropped(data, buffer) == buffer

\* stream.unshift(data): the data goes back to the front of the buffer
Unshift(data, buffer) == data \o buffer

\* The calls of ExtractFromStream that wait for 'readable', in the order of the listeners
Waiting(peeks) == { id \in 1..Len(peeks) : peeks[id].state = "waiting" }

\* The calls of ExtractFromStream whose promise has resolved: a call made now is
\* sequential to them
Settled(peeks) == { id \in 1..Len(peeks) : peeks[id].state = "resolved" }

\* readableEvent of call id, run on st = (buffer, peeks, need, sched)
ReadableHandler(id, st) ==
    LET data == StreamRead(st.buffer, sEnded, st.peeks[id].n)
    IN  IF ~data.null
        THEN [ buffer |-> Unshift(data.bytes, data.rest),
               peeks |-> [st.peeks EXCEPT ![id].state = "resolved", ![id].value = data.bytes],
               need |-> FALSE,
               sched |-> st.sched \/ st.need ]
        ELSE [st EXCEPT !.need = TRUE]

\* emit('readable'): the listeners from id on run one after the other
RECURSIVE EmitReadable(_, _)
EmitReadable(id, st) ==
    IF id > Len(st.peeks) THEN st
    ELSE IF sPeeks[id].state = "waiting"
         THEN EmitReadable(id + 1, ReadableHandler(id, st))
         ELSE EmitReadable(id + 1, st)

\* ExtractFromStream(stream, size)
Peek(size) ==
    /\ Len(sPeeks) < MaxPeeks
    /\ sDrainPc \in {"none", "done"}
    /\ IF sEnded
       THEN \* throw Error('Stream has ended already')
            /\ sPeeks' = Append(sPeeks, [n |-> size, state |-> "thrown", value |-> << >>,
                                         afterDrain |-> sDrainPc # "none",
                                         prior |-> Settled(sPeeks)])
            /\ UNCHANGED <<sReading, sReadable>>
       ELSE \* stream.once('readable', readableEvent); stream.on('error', errorEvent)
            /\ sPeeks' = Append(sPeeks, [n |-> size, state |-> "waiting", value |-> << >>,
                                         afterDrain |-> sDrainPc # "none",
                                         prior |-> Settled(sPeeks)])
            /\ sReading' = TRUE
            /\ sReadable' = (sReadable \/ (Waiting(sPeeks) = {} /\ Len(sBuffer) > 0))
    /\ UNCHANGED <<sContent, sSource, sBuffer, sEnded, sErrored, sDrainPc, sDrained, exceptStream>>

\* The resource pushes the next k bytes into the stream
SourcePush(k) ==
    /\ sReading /\ ~sEnded /\ ~sErrored
    /\ k \in 1..Len(sSource)
    /\ sBuffer' = sBuffer \o Take(sSource, k)
    /\ sSource' = Drop(sSource, k)
    /\ sReadable' = (sReadable \/ Waiting(sPeeks) # {})
    /\ UNCHANGED <<sContent, sEnded, sReading, sErrored, sPeeks, sDrainPc, sDrained, exceptStream>>

\* The resource has no more data: push(null)
SourceEnd ==
    /\ sReading /\ ~sEnded /\ ~sErrored
    /\ sSource = << >>
    /\ sEnded' = TRUE
    /\ sReadable' = (sReadable \/ Waiting(sPeeks) # {})
    /\ UNCHANGED <<sContent, sSource, sBuffer, sReading, sErrored, sPeeks, sDrainPc, sDrained, exceptStream>>

\* The stream emits 'error': errorEvent rejects the calls that still listen
SourceError ==
    /\ sReading /\ ~sEnded /\ ~sErrored
    /\ sErrored' = TRUE
    /\ sPeeks' = [id \in 1..Len(sPeeks) |->
                     IF sPeeks[id].state = "waiting"
                     THEN [sPeeks[id] EXCEPT !.state = "rejected"]
                     ELSE sPeeks[id]]
    /\ UNCHANGED <<sContent, sSource, sBuffer, sEnded, sReading, sReadable, sDrainPc, sDrained, exceptStream>>

\* The stream emits 'readable': every listener runs readableEvent
ReadableEvent ==
    /\ sReadable
    /\ Waiting(sPeeks) # {}
    /\ LET st == EmitReadable(1, [buffer |-> sBuffer, peeks |-> sPeeks, need |-> FALSE, sched |-> FALSE])
       IN  /\ sBuffer' = st.buffer
           /\ sPeeks' = st.peeks
           /\ sReadable' = (st.sched /\ Waiting(st.peeks) # {})
    /\ UNCHANGED <<sContent, sSource, sEnded, sReading, sErrored, sDrainPc, sDrained, exceptStream>>

\* A consumer starts to drain the stream, after the calls of ExtractFromStream have
\* settled; a call with size 0 never settles (read(0) returns null) and is not awaited
DrainStart ==
    /\ sDrainPc = "none"
    /\ Len(sPeeks) >= 1
    /\ \A id \in Waiting(sPeeks) : sPeeks[id].n = 0
    /\ ~sErrored
    /\ sDrainPc' = "draining"
    /\ sReading' = TRUE
    /\ UNCHANGED <<sContent, sSource, sBuffer, sEnded, sReadable, sErrored, sPeeks, sDrained, exceptStream>>

\* The consumer receives the next k bytes of the buffer
DrainData(k) ==
    /\ sDrainPc = "draining"
    /\ ~sErrored
    /\ k \in 1..Len(sBuffer)
    /\ sDrained' = sDrained \o Take(sBuffer, k)
    /\ sBuffer' = Drop(sBuffer, k)
    /\ UNCHANGED <<sContent, sSource, sEnded, sReading, sReadable, sErrored, sPeeks, sDrainPc, exceptStream>>

\* The buffer is empty and the stream has ended: the consumer receives 'end'
DrainEnd ==
    /\ sDrainPc = "draining"
    /\ ~sErrored
    /\ sEnded /\ sBuffer = << >>
    /\ sDrainPc' = "done"
    /\ UNCHANGED <<sContent, sSource, sBuffer, sEnded, sReading, sReadable, sErrored, sPeeks, sDrained, exceptStream>>

StreamIdle ==
    /\ sContent = << >>
    /\ sSource = << >>
    /\ sBuffer = << >>
    /\ sEnded = FALSE
    /\ sReading = FALSE
    /\ sReadable = FALSE
    /\ sErrored = FALSE
    /\ sPeeks = << >>
    /\ sDrainPc = "none"
    /\ sDrained = << >>

StreamInputs ==
    /\ sContent \in { Content(n) : n \in 0..MaxLen }
    /\ sSource = sContent
    /\ sBuffer = << >>
    /\ sEnded = FALSE
    /\ sReading = FALSE
    /\ sReadable = FALSE
    /\ sErrored = FALSE
    /\ sPeeks = << >>
    /\ sDrainPc = "none"
    /\ sDrained = << >>

NextStream ==
    \/ \E size \in 0..(MaxLen + 1) : Peek(size)
    \/ \E k \in 1..MaxLen : SourcePush(k)
    \/ SourceEnd
    \/ SourceError
    \/ ReadableEvent
    \/ DrainStart
    \/ \E k \in 1..MaxLen : DrainData(k)
    \/ DrainEnd

(***************************************************************************)
(* putObject and getObjectAsBuffer                                         *)
(***************************************************************************)
Providers == {"aws", "gcs", "generic-s3", "azure", "backblaze-b2"}

\* Bytes and code points used in the data: 'a' and 'e' with an acute accent
Units == {97, 233}

DataInputs == UNION { [1..n -> Units] : n \in 0..MaxData }

\* Buffer.from(string, 'utf8'), for code points below 2048
Utf8(cp) == IF cp < 128 THEN <<cp>> ELSE <<192 + (cp \div 64), 128 + (cp % 64)>>

RECURSIVE Utf8Encode(_)
Utf8Encode(str) ==
    IF str = << >> THEN << >> ELSE Utf8(Head(str)) \o Utf8Encode(Tail(str))

\* The bytes a provider sends for the data: a string is encoded as UTF-8
BodyBytes(kind, data) == IF kind = "string" THEN Utf8Encode(data) ELSE data

\* Buffer.concat(chunks)
RECURSIVE BufferConcat(_)
BufferConcat(chunks) ==
    IF chunks = << >> THEN << >> ELSE Head(chunks) \o BufferConcat(Tail(chunks))

\* The methods of the backblaze-b2 client that the provider relies on and the client
\* has; the client has no getObject and no removeObject method
B2ClientMethods == {"authorize", "createBucket", "deleteBucket", "listBuckets",
                    "getUploadUrl", "uploadFile", "listFileNames"}

NoValue == << >>
GetPending == [state |-> "pending", msg |-> "", value |-> NoValue]
GetResolved(v) == [state |-> "resolved", msg |-> "", value |-> v]
GetRejected(m) == [state |-> "rejected", msg |-> m, value |-> NoValue]

\* putObject(container, path, data): what the call does before the backend answers
PutObject ==
    /\ rPutPc = "new"
    /\ IF rProvider = "azure" /\ rKind = "string" /\ rData = << >>
       THEN \* AzureStorageProvider: if (!data) throw Error('Argument data is empty')
            /\ rPut' = Rejected(ListError("Argument data is empty"))
            /\ rPutPc' = "settled"
       ELSE IF rProvider = "backblaze-b2" /\ IsStream(rKind)
       THEN \* B2Upload.start: if (IsStream(this.data)) throw Error(...)
            /\ rPut' = Rejected(ListError("putObject requires a Stream, a Buffer or a string"))
            /\ rPutPc' = "settled"
       ELSE /\ rPutPc' = "sent"
            /\ UNCHANGED rPut
    /\ UNCHANGED <<rProvider, rKind, rData, rStore, rGetPc, rLeft, buffersCache, rGet, rListPc, rList, exceptRound>>

\* The backend answers the upload request
PutResponse(ok) ==
    /\ rPutPc = "sent"
    /\ IF ok
       THEN /\ rStore' = BodyBytes(rKind, rData)
            /\ IF rProvider = "azure" /\ IsStream(rKind)
               THEN \* the callback tests response.commmittedBlocks and throws: the promise stays pending
                    /\ rPutPc' = "lost"
                    /\ UNCHANGED rPut
               ELSE /\ rPut' = Resolved
                    /\ rPutPc' = "settled"
       ELSE /\ UNCHANGED rStore
            /\ IF rProvider = "backblaze-b2"
               THEN \* B2Upload.putFile: the catch handler waits and calls putFile again
                    UNCHANGED <<rPut, rPutPc>>
               ELSE /\ rPut' = Rejected(ListError("backend error"))
                    /\ rPutPc' = "settled"
    /\ UNCHANGED <<rProvider, rKind, rData, rGetPc, rLeft, buffersCache, rGet, rListPc, rList, exceptRound>>

\* getObjectAsBuffer(container, path), called after putObject has resolved:
\* this.getObject(container, path).then((stream) => StreamToBuffer(stream))
GetObjectAsBuffer ==
    /\ rPut.state = "resolved"
    /\ rGetPc = "new"
    /\ IF rProvider = "backblaze-b2" /\ "getObject" \notin B2ClientMethods
       THEN \* this._client.getObject is not a function
            /\ rGet' = GetRejected("TypeError")
            /\ rGetPc' = "settled"
            /\ UNCHANGED rLeft
       ELSE /\ rLeft' = rStore
            /\ rGetPc' = "streaming"
            /\ UNCHANGED rGet
    /\ UNCHANGED <<rProvider, rKind, rData, rPutPc, rPut, rStore, buffersCache, rListPc, rList, exceptRound>>

\* StreamToBuffer: stream.on('data', ...)
DataEvent(k) ==
    /\ rGetPc = "streaming"
    /\ k \in 1..Len(rLeft)
    /\ buffersCache' = Append(buffersCache, Take(rLeft, k))
    /\ rLeft' = Drop(rLeft, k)
    /\ UNCHANGED <<rProvider, rKind, rData, rPutPc, rPut, rStore, rGetPc, rGet, rListPc, rList, exceptRound>>

\* StreamToBuffer: stream.on('end', ...)
EndEvent ==
    /\ rGetPc = "streaming"
    /\ rLeft = << >>
    /\ rGet' = GetResolved(BufferConcat(buffersCache))
    /\ rGetPc' = "settled"
    /\ UNCHANGED <<rProvider, rKind, rData, rPutPc, rPut, rStore, rLeft, buffersCache, rListPc, rList, exceptRound>>

\* StreamToBuffer: stream.on('error', ...)
ErrorEvent ==
    /\ rGetPc = "streaming"
    /\ rGet' = GetRejected("stream error")
    /\ rGetPc' = "settled"
    /\ UNCHANGED <<rProvider, rKind, rData, rPutPc, rPut, rStore, rLeft, buffersCache, rListPc, rList, exceptRound>>

\* The object of the round trip, and the prefix it is listed under
ObjectPath == "a/b.txt"
ObjectPrefix == "a/"

\* A size as the decimal string of a JSON answer, for sizes below 10
SizeString(n) == IF n \in 0..9 THEN <<DigitSeq[n + 1]>> ELSE << >>

\* parseInt(str, 10) of one digit
ParseInt(str) == CHOOSE n \in 0..9 : SizeString(n) = str

\* What the backend lists for the prefix: the object, with the size it stores
\* (a number for S3, Minio and B2, a decimal string for GCS and Azure)
BackendObject ==
    [name |-> ObjectPath, size |-> Len(rStore), sizeString |-> SizeString(Len(rStore))]

\* The entry that listObjects of a provider makes of an object of the backend;
\* size is "none" when the entry has no size property
ListItemObject(provider, el) ==
    CASE provider = "gcs" ->
            \* if (el.metadata.size) { obj.size = parseInt(el.metadata.size, 10) }
            [path |-> el.name,
             size |-> IF el.sizeString # << >> THEN ParseInt(el.sizeString) ELSE -1]
      [] provider = "azure" ->
            \* size: parseInt(e.contentLength, 10)
            [path |-> el.name, size |-> ParseInt(el.sizeString)]
      [] OTHER ->
            \* size: el.Size, obj.size, file.contentLength
            [path |-> el.name, size |-> el.size]

ListPending == [state |-> "pending", list |-> << >>]

\* listObjects(container, 'a/') is called after putObject has resolved
ListObjectsCall ==
    /\ rPut.state = "resolved"
    /\ rListPc = "new"
    /\ rListPc' = "sent"
    /\ UNCHANGED <<rProvider, rKind, rData, rPutPc, rPut, rStore, rGetPc, rLeft, buffersCache,
                   rGet, rList, exceptRound>>

\* The backend answers the request of listObjects with the object, or fails
ListObjectsAnswer(ok) ==
    /\ rListPc = "sent"
    /\ rListPc' = "settled"
    /\ rList' = IF ok
                THEN [state |-> "resolved", list |-> <<ListItemObject(rProvider, BackendObject)>>]
                ELSE [state |-> "rejected", list |-> << >>]
    /\ UNCHANGED <<rProvider, rKind, rData, rPutPc, rPut, rStore, rGetPc, rLeft, buffersCache,
                   rGet, exceptRound>>

RoundIdle ==
    /\ rProvider = "aws"
    /\ rKind = "buffer"
    /\ rData = << >>
    /\ rPutPc = "new"
    /\ rPut = Pending
    /\ rStore = << >>
    /\ rGetPc = "new"
    /\ rLeft = << >>
    /\ buffersCache = << >>
    /\ rGet = GetPending
    /\ rListPc = "new"
    /\ rList = ListPending

RoundInputs ==
    /\ rProvider \in Providers
    /\ rKind \in {"buffer", "string", "stream"}
    /\ rData \in DataInputs
    /\ rPutPc = "new"
    /\ rPut = Pending
    /\ rStore = << >>
    /\ rGetPc = "new"
    /\ rLeft = << >>
    /\ buffersCache = << >>
    /\ rGet = GetPending
    /\ rListPc = "new"
    /\ rList = ListPending

NextRound ==
    \/ PutObject
    \/ \E ok \in BOOLEAN : PutResponse(ok)
    \/ GetObjectAsBuffer
    \/ \E k \in 1..(2 * MaxData) : DataEvent(k)
    \/ EndEvent
    \/ ErrorEvent
    \/ ListObjectsCall
    \/ \E ok \in BOOLEAN : ListObjectsAnswer(ok)

(***************************************************************************)
(* createContainer, containerExists and ensureContainer                    *)
(***************************************************************************)
ContainerOpKinds == {"createContainer", "containerExists", "ensureContainer"}

\* What the backend reports for the container name when asked whether it exists:
\* B2 lists the buckets of the account, the others answer for the name
ExistsReport ==
    IF cOwned THEN "present"
    ELSE IF cForeign /\ cProvider # "backblaze-b2" THEN "forbidden"
    ELSE "absent"

\* containerExists: the outcome for what the backend reported; "throw" is an
\* exception thrown inside the callback, which leaves the promise pending
ContainerExists(provider, report) ==
    CASE report = "present" -> [state |-> "resolved", value |-> "true", err |-> ""]
      [] report = "absent" -> [state |-> "resolved", value |-> "false", err |-> ""]
      [] report = "forbidden" ->
            IF provider \in {"aws", "generic-s3"}
            THEN [state |-> "resolved", value |-> "false", err |-> ""]
            ELSE [state |-> "rejected", value |-> "none", err |-> "Forbidden"]
      [] report = "error" ->
            IF provider = "generic-s3"
            THEN [state |-> "resolved", value |-> "false", err |-> ""]
            ELSE [state |-> "rejected", value |-> "none", err |-> "BackendError"]
      [] report = "invalid" ->
            IF provider = "backblaze-b2"
            THEN [state |-> "resolved", value |-> "false", err |-> ""]
            ELSE [state |-> "throw", value |-> "none", err |-> ""]

\* The providers whose code tests the shape of the answer
ValidatesExists == {"azure", "backblaze-b2"}
ValidatesCreate == {"aws", "azure"}

\* The first request of a call: B2 authorizes first, Azure's ensureContainer is
\* createContainerIfNotExists, the other ensureContainer start with containerExists
FirstStep(kind) ==
    IF kind = "createContainer" THEN "create"
    ELSE IF kind = "ensureContainer" /\ cProvider = "azure" THEN "createIfNotExists"
    ELSE "exists"

NewContainerOp(kind) ==
    [ op |-> kind,
      pc |-> IF cProvider = "backblaze-b2" THEN "authorize" ELSE FirstStep(kind),
      then |-> FirstStep(kind),
      state |-> "pending", value |-> "none", err |-> "",
      saw |-> "none", faulty |-> FALSE,
      prior |-> { i \in 1..Len(cOps) : cOps[i].state = "resolved" } ]

SettleOp(o, outcome) ==
    IF outcome.state = "throw"
    THEN [o EXCEPT !.pc = "lost"]
    ELSE [o EXCEPT !.pc = "settled", !.state = outcome.state,
                   !.value = outcome.value, !.err = outcome.err]

\* createContainer, containerExists or ensureContainer is called
ContainerCall(kind) ==
    /\ Len(cOps) < MaxContainerOps
    /\ cOps' = Append(cOps, NewContainerOp(kind))
    /\ UNCHANGED <<cProvider, cOwned, cForeign, exceptContainer>>

\* BackblazeB2Provider._ensureAuthorized: client.authorize() settles
ContainerAuthorized(i, ok) ==
    /\ i \in 1..Len(cOps)
    /\ cOps[i].pc = "authorize"
    /\ cOps' = [cOps EXCEPT ![i] =
                 IF ok THEN [@ EXCEPT !.pc = cOps[i].then]
                 ELSE SettleOp([@ EXCEPT !.faulty = TRUE],
                               [state |-> "rejected", value |-> "none", err |-> "BackendError"])]
    /\ UNCHANGED <<cProvider, cOwned, cForeign, exceptContainer>>

\* As an ensureContainer that creates the container whatever containerExists said
AfterExistsAlwaysCreate(o, outcome) ==
    IF o.op = "containerExists" \/ outcome.state # "resolved"
    THEN SettleOp(o, outcome)
    ELSE [o EXCEPT !.pc = IF cProvider = "backblaze-b2" THEN "authorize" ELSE "create",
                   !.then = "create"]

\* The continuation of ensureContainer after containerExists resolved with exists
AfterExists(o, outcome) ==
    IF o.op = "containerExists" \/ outcome.state # "resolved"
    THEN SettleOp(o, outcome)
    ELSE IF outcome.value = "true"
    THEN SettleOp(o, [state |-> "resolved", value |-> "none", err |-> ""])
    ELSE \* if (!exists) return this.createContainer(...)
         [o EXCEPT !.pc = IF cProvider = "backblaze-b2" THEN "authorize" ELSE "create",
                   !.then = "create"]

\* The backend answers the request of containerExists (headBucket, bucket.exists,
\* bucketExists, getContainerProperties, listBuckets)
ContainerExistsAnswer(i, fault) ==
    /\ i \in 1..Len(cOps)
    /\ cOps[i].pc = "exists"
    /\ fault = "invalid" => cProvider \in ValidatesExists
    /\ LET report == IF fault = "none" THEN ExistsReport ELSE fault
           o == [cOps[i] EXCEPT !.saw = report, !.faulty = @ \/ fault # "none"]
       IN  cOps' = [cOps EXCEPT ![i] = AfterExists(o, ContainerExists(cProvider, report))]
    /\ UNCHANGED <<cProvider, cOwned, cForeign, exceptContainer>>

\* createContainer: the outcome for the answer of the backend
CreateContainer(provider, answer) ==
    CASE answer = "created" -> [state |-> "resolved", value |-> "none", err |-> ""]
      [] answer = "exists" -> [state |-> "rejected", value |-> "none", err |-> "AlreadyExists"]
      [] answer = "error" -> [state |-> "rejected", value |-> "none", err |-> "BackendError"]
      [] answer = "invalid" ->
            IF provider = "aws"
            THEN [state |-> "rejected", value |-> "none", err |-> "InvalidResponse"]
            ELSE [state |-> "throw", value |-> "none", err |-> ""]

\* The backend answers the request that creates the container (createBucket,
\* bucket.create, makeBucket, createContainer, createContainerIfNotExists)
CreateContainerAnswer(i, fault) ==
    /\ i \in 1..Len(cOps)
    /\ cOps[i].pc \in {"create", "createIfNotExists"}
    /\ fault = "invalid" => cProvider \in ValidatesCreate
    /\ LET taken == cOwned \/ cForeign
           answer == IF fault = "error" THEN "error"
                     ELSE IF taken /\ ~(cOwned /\ cOps[i].pc = "createIfNotExists") THEN "exists"
                     ELSE IF fault = "invalid" THEN "invalid"
                     ELSE "created"
           o == [cOps[i] EXCEPT !.faulty = @ \/ fault # "none"]
       IN  /\ cOps' = [cOps EXCEPT ![i] = SettleOp(o, CreateContainer(cProvider, answer))]
           /\ cOwned' = (cOwned \/ answer \in {"created", "invalid"})
    /\ UNCHANGED <<cProvider, cForeign, exceptContainer>>

\* The methods of a provider object: those of BackblazeB2Provider and those it
\* inherits from StorageProvider
ProviderMethods ==
    {"createContainer", "containerExists", "ensureContainer", "listContainers",
     "deleteContainer", "putObject", "getObject", "getObjectAsBuffer",
     "getObjectAsString", "listObjects", "deleteObject"}

PresignedMethods == {"presignedGetUrl", "presignedPutUrl"}

\* storage.presignedGetUrl(...) or storage.presignedPutUrl(...) is called: a call
\* of a method that the object does not have throws a TypeError at once
PresignedCall(name) ==
    /\ Len(cOps) < MaxContainerOps
    /\ cOps' = Append(cOps,
                 [NewContainerOp(name) EXCEPT
                    !.pc = "settled",
                    !.then = "none",
                    !.state = IF name \in ProviderMethods THEN "pending" ELSE "thrown",
                    !.err = IF name \in ProviderMethods THEN "" ELSE "TypeError"])
    /\ UNCHANGED <<cProvider, cOwned, cForeign, exceptContainer>>

ContainerIdle ==
    /\ cProvider = "aws"
    /\ cOwned = FALSE
    /\ cForeign = FALSE
    /\ cOps = << >>

ContainerInputs ==
    /\ cProvider \in Providers
    /\ cOwned \in BOOLEAN
    /\ cForeign \in BOOLEAN
    /\ ~(cOwned /\ cForeign)
    /\ cProvider = "azure" => ~cForeign
    /\ cOps = << >>

NextContainer ==
    \/ \E kind \in ContainerOpKinds : ContainerCall(kind)
    \/ \E name \in PresignedMethods : PresignedCall(name)
    \/ \E i \in 1..MaxContainerOps, ok \in BOOLEAN : ContainerAuthorized(i, ok)
    \/ \E i \in 1..MaxContainerOps, fault \in {"none", "error", "invalid"} :
          ContainerExistsAnswer(i, fault)
    \/ \E i \in 1..MaxContainerOps, fault \in {"none", "error", "invalid"} :
          CreateContainerAnswer(i, fault)

(***************************************************************************)
(* SMCloudStore.Create                                                     *)
(***************************************************************************)
\* SMCloudStore.Providers()
SupportedProviders ==
    <<"aws-s3", "azure-storage", "backblaze-b2", "generic-s3", "google-cloud-storage", "minio">>

\* Array.prototype.indexOf, with indexes from 0
IndexOf(list, v) ==
    IF \E i \in 1..Len(list) : list[i] = v
    THEN (CHOOSE i \in 1..Len(list) : list[i] = v /\ \A j \in 1..(i - 1) : list[j] # v) - 1
    ELSE -1

\* Values given as the provider argument: nothing, a number, and strings
ProviderArgs ==
    {[type |-> "undefined", value |-> ""], [type |-> "number", value |-> "42"],
     [type |-> "string", value |-> ""], [type |-> "string", value |-> "invalid-provider"]}
    \cup { [type |-> "string", value |-> SupportedProviders[i]] : i \in 1..Len(SupportedProviders) }

\* Values given as the connection argument: nothing, null, and objects with a number
\* of keys that the client library of the provider accepts or rejects; no library
\* accepts an object without keys
ConnectionArgs ==
    {[type |-> "undefined", keys |-> 0, accepted |-> FALSE],
     [type |-> "null", keys |-> 0, accepted |-> FALSE],
     [type |-> "object", keys |-> 0, accepted |-> FALSE],
     [type |-> "object", keys |-> 2, accepted |-> FALSE],
     [type |-> "object", keys |-> 3, accepted |-> TRUE]}

\* !provider and !connection
Falsy(arg) == arg.type \in {"undefined", "null"} \/ (arg.type = "string" /\ arg.value = "")

\* The providers whose constructor tests the connection before it builds the client
ChecksConnection == {"aws-s3", "backblaze-b2", "generic-s3", "google-cloud-storage", "minio"}

\* The client libraries that validate the connection when the client is built
ValidatesConnection == {"azure-storage", "generic-s3", "minio"}

Thrown(msg) == [outcome |-> "thrown", err |-> msg, module |-> ""]

\* As a constructor that does not test the connection
ConstructorUnchecked(id, connection) ==
    IF id \in ValidatesConnection /\ ~connection.accepted
    THEN Thrown("client library error")
    ELSE [outcome |-> "instance", err |-> "", module |-> id]

\* new providerModule(connection)
Constructor(id, connection) ==
    IF id \in ChecksConnection /\ (Falsy(connection) \/ connection.keys = 0)
    THEN Thrown("Connection argument is empty")
    ELSE IF id \in ValidatesConnection /\ ~connection.accepted
    THEN Thrown("client library error")
    ELSE [outcome |-> "instance", err |-> "", module |-> id]

\* SMCloudStore.Create(provider, connection)
Create(provider, connection) ==
    IF Falsy(provider) \/ provider.type # "string" \/ IndexOf(SupportedProviders, provider.value) < 0
    THEN Thrown("The specified provider is not valid")
    ELSE IF Falsy(connection)
    THEN Thrown("The connection argument must be non-empty")
    ELSE Constructor(provider.value, connection)

\* A call of SMCloudStore.Create
CreateCall(provider, connection) ==
    /\ Len(kCalls) < MaxCreates
    /\ kCalls' = Append(kCalls, [provider |-> provider, connection |-> connection,
                                 result |-> Create(provider, connection)])
    /\ UNCHANGED exceptCreate

CreateIdle == kCalls = << >>

NextCreate == \E provider \in ProviderArgs, connection \in ConnectionArgs : CreateCall(provider, connection)

(***************************************************************************)
(* AzureStorageProvider.listObjects                                        *)
(***************************************************************************)
WalkTypes == {"blob", "prefix"}

\* _listBlobsOrDircotriesSegmentedWithPrefix: one page of the listing with delimiter
\* '/'; entries holds the blobs or the directories of the page, by listBlobType
AzureListSegment(store, prefix, size, token, type) ==
    [ entries |-> IF type = "prefix"
                  THEN SelectSeq(BackendPage(store, prefix, size, token), IsPrefix)
                  ELSE SelectSeq(BackendPage(store, prefix, size, token), IsObject),
      continuationToken |-> NextToken(store, prefix, size, token) ]

\* As a Promise.race over the two walks
AnyResolved(walk) == \E t \in WalkTypes : walk[t].state = "resolved"

\* Promise.all([...]): fulfilled once the promise of every walk is
AllResolved(walk) == \A t \in WalkTypes : walk[t].state = "resolved"

\* listObjects(container, prefix): requestPromise('blob', null), requestPromise('prefix', null)
AzureListObjects ==
    /\ zPc = "new"
    /\ zPc' = "running"
    /\ zWalk' = [t \in WalkTypes |-> [state |-> "request", token |-> 0]]
    /\ UNCHANGED <<zStore, zPrefix, zPageSize, resultList, zPromise, exceptAzureList>>

\* requestPromise(type, token): the callback of the list request of one walk
AzureListResponse(type, err) ==
    /\ zPc = "running"
    /\ zWalk[type].state = "request"
    /\ LET response == AzureListSegment(zStore, zPrefix, zPageSize, zWalk[type].token, type)
           walk == IF err
                   THEN [zWalk EXCEPT ![type].state = "rejected"]
                   ELSE IF response.continuationToken # 0
                   THEN [zWalk EXCEPT ![type].token = response.continuationToken]
                   ELSE [zWalk EXCEPT ![type].state = "resolved"]
       IN  /\ zWalk' = walk
           /\ resultList' = IF err THEN resultList ELSE resultList \o response.entries
           /\ zPromise' = IF zPromise # Pending THEN zPromise
                          ELSE IF err THEN Rejected(ListError("backend error"))
                          ELSE IF AllResolved(walk) THEN Resolved
                          ELSE zPromise
    /\ UNCHANGED <<zStore, zPrefix, zPageSize, zPc, exceptAzureList>>

AzureListIdle ==
    /\ zStore = {}
    /\ zPrefix = << >>
    /\ zPageSize = 1
    /\ zPc = "new"
    /\ zWalk = [t \in WalkTypes |-> [state |-> "idle", token |-> 0]]
    /\ resultList = << >>
    /\ zPromise = Pending

AzureListInputs ==
    /\ zStore \in SUBSET Paths
    /\ zPrefix \in Prefixes
    /\ zPageSize \in 1..MaxPageSize
    /\ zPc = "new"
    /\ zWalk = [t \in WalkTypes |-> [state |-> "idle", token |-> 0]]
    /\ resultList = << >>
    /\ zPromise = Pending

NextAzureList ==
    \/ AzureListObjects
    \/ \E type \in WalkTypes, err \in BOOLEAN : AzureListResponse(type, err)

(***************************************************************************)
(* Specifications                                                          *)
(***************************************************************************)
NextUpload ==
    \/ Start
    \/ \E outcome \in {"ok", "invalid", "error"} : GetUploadUrlResponse(outcome)
    \/ \E ok \in BOOLEAN : UploadFileResponse(ok)
    \/ WaitElapsed

InitUpload == UploadInputs /\ AuthIdle /\ ListIdle /\ StreamIdle /\ RoundIdle /\ ContainerIdle /\ CreateIdle /\ AzureListIdle

SpecUpload == InitUpload /\ [][NextUpload]_vars

InitAuth == AuthIdle /\ UploadIdle /\ ListIdle /\ StreamIdle /\ RoundIdle /\ ContainerIdle /\ CreateIdle /\ AzureListIdle

SpecAuth == InitAuth /\ [][NextAuth]_vars

InitList == ListInputs /\ UploadIdle /\ AuthIdle /\ StreamIdle /\ RoundIdle /\ ContainerIdle /\ CreateIdle /\ AzureListIdle

SpecList == InitList /\ [][NextList]_vars

InitB2List == B2ListInputs /\ UploadIdle /\ AuthIdle /\ StreamIdle /\ RoundIdle /\ ContainerIdle /\ CreateIdle /\ AzureListIdle

SpecB2List == InitB2List /\ [][NextB2List]_vars

InitStream == StreamInputs /\ UploadIdle /\ AuthIdle /\ ListIdle /\ RoundIdle /\ ContainerIdle /\ CreateIdle /\ AzureListIdle

SpecStream == InitStream /\ [][NextStream]_vars

\* The stream makes progress: the resource delivers its data and then ends (or the
\* stream fails), and an event that is scheduled is emitted
StreamFairness ==
    /\ WF_vars(\E k \in 1..MaxLen : SourcePush(k))
    /\ WF_vars(SourceEnd)
    /\ WF_vars(ReadableEvent)

SpecStreamFair == InitStream /\ [][NextStream]_vars /\ StreamFairness

InitRound == RoundInputs /\ UploadIdle /\ AuthIdle /\ ListIdle /\ StreamIdle /\ ContainerIdle /\ CreateIdle /\ AzureListIdle

SpecRound == InitRound /\ [][NextRound]_vars

InitContainer == ContainerInputs /\ UploadIdle /\ AuthIdle /\ ListIdle /\ StreamIdle /\ RoundIdle /\ CreateIdle /\ AzureListIdle

SpecContainer == InitContainer /\ [][NextContainer]_vars

InitCreate == CreateIdle /\ UploadIdle /\ AuthIdle /\ ListIdle /\ StreamIdle /\ RoundIdle /\ ContainerIdle /\ AzureListIdle

SpecCreate == InitCreate /\ [][NextCreate]_vars

InitAzureList == AzureListInputs /\ CreateIdle /\ UploadIdle /\ AuthIdle /\ ListIdle /\ StreamIdle /\ RoundIdle /\ ContainerIdle

SpecAzureList == InitAzureList /\ [][NextAzureList]_vars

(***************************************************************************)
(* Claims about B2Upload.putFile                                           *)
(***************************************************************************)
\* C1: when every attempt fails, one upload makes at most Retries + 1 = 4 attempts:
\* no 5th getUploadUrl or uploadFile call is issued.
C1_AtMostFourAttempts ==
    /\ Cardinality(CallsOf("getUploadUrl")) <= Retries + 1
    /\ Cardinality(CallsOf("uploadFile")) <= Retries + 1

\* C2: when every attempt has failed (the original attempt and the Retries retries),
\* the promise is rejected with the error of the last failed attempt.
C2_RejectsWithLastError ==
    Len(uFailures) >= Retries + 1 => uPromise = Rejected(uFailures[Len(uFailures)])

\* C3: the wait before the k-th retry of one upload is (k+1) x 500 ms.
C3_LinearBackoff ==
    \A k \in 1..Len(uDelays) : uDelays[k] = (k + 1) * 500

\* More than 10 custom keys, or a key with a character outside A-Z, a-z, 0-9 and '-'
ViolatesMetadataLimits(meta) ==
    \/ Cardinality({ k \in 1..Len(meta) : meta[k] # ContentTypeKey }) > 10
    \/ \E k \in 1..Len(meta) : \E j \in 1..Len(meta[k]) :
         meta[k][j] \notin UpperCase \cup LowerCase \cup Digits \cup {"-"}

\* C4: an upload whose metadata violates the limits makes no backend call:
\* neither getUploadUrl nor uploadFile is invoked.
C4_NoBackendCallOnInvalidMetadata ==
    ViolatesMetadataLimits(uMetadata) => uCalls = << >>

\* The errors thrown by the metadata loop of putFile
IsValidationFailure(e) ==
    e.msg \in {"Cannot send more than 10 custom headers", "Invalid header format: must be A-Za-z0-9"}

\* C20: a metadata validation failure in putFile reaches the caller at once and exactly
\* once: it is the last failure of the upload, the promise is rejected with it, no
\* delay is started for it and no putFile invocation follows the one that threw it.
C20_ValidationFailureNotRetried ==
    \A k \in 1..Len(uFailures) :
        IsValidationFailure(uFailures[k]) =>
            /\ k = Len(uFailures)
            /\ uPromise = Rejected(uFailures[k])
            /\ Len(uDelays) = k - 1
            /\ Invocation = uFailures[k].attempt

\* C21: every uploadFile request uses the upload url and token returned by the
\* getUploadUrl call of the same putFile invocation, and no url/token pair is used
\* by two uploadFile requests.
C21_FreshUploadUrlPerAttempt ==
    /\ \A k \in CallsOf("uploadFile") :
         /\ uCalls[k].uploadUrl \in CallsOf("getUploadUrl")
         /\ uCalls[k].uploadUrl < k
         /\ uCalls[uCalls[k].uploadUrl].invocation = uCalls[k].invocation
    /\ \A j, k \in CallsOf("uploadFile") : uCalls[j].uploadUrl = uCalls[k].uploadUrl => j = k

\* An uploadFile request has failed and the retry has sent a second one
C21_Witness ==
    /\ Cardinality(CallsOf("uploadFile")) >= 2
    /\ \E k \in 1..Len(uFailures) : uFailures[k].msg = "uploadFile failed"

\* C24: the promise of putObject resolves only if an uploadFile request for the
\* object was made and has succeeded; for data that is neither a string, a Buffer
\* nor a stream it rejects with 'putObject requires a Stream, a Buffer or a string'
\* and nothing is uploaded.
C24_ResolvesOnlyAfterUpload ==
    /\ uPromise = Resolved => CallsOf("uploadFile") # {}
    /\ (uData = "other" /\ uPc = "settled") =>
         /\ uPromise = Rejected([msg |-> "putObject requires a Stream, a Buffer or a string", attempt |-> 0])
         /\ uCalls = << >>

CustomCount(meta) == Cardinality({ k \in 1..Len(meta) : meta[k] # ContentTypeKey })

ValidCharacters(meta) ==
    \A k \in 1..Len(meta) : \A j \in 1..Len(meta[k]) :
        meta[k][j] \in UpperCase \cup LowerCase \cup Digits \cup {"-"}

StartsWithInfoPrefix(key) == Len(key) >= Len(InfoPrefix) /\ SubSeq(key, 1, Len(InfoPrefix)) = InfoPrefix

AuthorizeSucceeded == \E k \in 1..Len(authLog) : authLog[k].state = "ok"

\* C8: once a call to client.authorize() has succeeded, operations started later
\* on the instance issue no further authorize() call.
C8_NoAuthorizeAfterSuccess ==
    [][AuthorizeSucceeded => Len(authLog') = Len(authLog)]_vars

(***************************************************************************)
(* Claims about listObjects                                                *)
(***************************************************************************)
\* What the listing test expects for a prefix: the files below it without a further
\* '/', and one folder (ending in '/') per distinct next path segment
ExpectedFiles(store, prefix) ==
    { ObjectEntry(p) : p \in { q \in store :
        StartsWith(q, prefix) /\ IndexOfSlash(q, Len(prefix)) = 0 } }

ExpectedFolders(store, prefix) ==
    { PrefixEntry(SubSeq(p, 1, IndexOfSlash(p, Len(prefix)))) : p \in { q \in store :
        StartsWith(q, prefix) /\ IndexOfSlash(q, Len(prefix)) # 0 } }

NoDuplicates(q) == \A i, j \in 1..Len(q) : q[i] = q[j] => i = j

\* C6: listObjects returns one object entry per stored path below the prefix without
\* a further '/', exactly one prefix entry per distinct next segment, and no entry
\* twice, however many pages the backend used.
C6_ListingExact ==
    lPromise.state = "resolved" =>
        /\ Range(lList) = ExpectedFiles(lStore, lPrefix) \cup ExpectedFolders(lStore, lPrefix)
        /\ NoDuplicates(lList)

\* The pages the backend splits the listing into
PageTokens == { t \in 0..Len(BackendListing(lStore, lPrefix)) :
                  t < Len(BackendListing(lStore, lPrefix)) /\ t % lPageSize = 0 }

\* C7: AwsS3Provider.listObjects never resolves with a partial list: a resolved
\* list contains the entries of every page of the backend.
C7_NoPartialList ==
    (lProvider = "aws" /\ lPromise.state = "resolved") =>
        \A t \in PageTokens :
            Range(BackendPage(lStore, lPrefix, lPageSize, t)) \subseteq Range(lList)

\* The number of pages of the listing; an empty listing is one empty page
PageCount == IF PageTokens = {} THEN 1 ELSE Cardinality(PageTokens)

\* C22: for a listing of N pages BackblazeB2Provider.listObjects sends exactly N
\* listFileNames requests, every request after the first starts at the nextFileName
\* of the response before it, and the resolved list holds the entries of every page
\* exactly once.
C22_B2ListingFollowsNextFileName ==
    lProvider = "backblaze-b2" =>
        /\ \A k \in 2..Len(lRequests) :
             /\ lRequests[k] # 0
             /\ lRequests[k] = NextToken(lStore, lPrefix, lPageSize, lRequests[k - 1])
        /\ Len(lRequests) <= PageCount
        /\ lPromise.state = "resolved" =>
             /\ Len(lRequests) = PageCount
             /\ lList = BackendListing(lStore, lPrefix)

\* C30: AwsS3Provider.listObjects on a container and prefix that match no object
\* resolves with an empty list: it rejects only when the backend reported an error,
\* never for a successful response with zero keys.
C30_EmptyListingResolves ==
    (lProvider = "aws" /\ BackendListing(lStore, lPrefix) = << >> /\ lPc = "settled") =>
        /\ lPromise.state = "rejected" => lPromise.err = ListError("backend error")
        /\ lPromise.state = "resolved" => lList = << >>

(***************************************************************************)
(* Claims about ExtractFromStream                                          *)
(***************************************************************************)
IsPrefixOf(p, q) == Len(p) <= Len(q) /\ SubSeq(q, 1, Len(p)) = p

\* C9: a full drain that follows ExtractFromStream(stream, n) yields exactly the
\* bytes of the stream, in order: no byte is lost, duplicated or reordered.
C9_DrainAfterPeekYieldsContent ==
    /\ IsPrefixOf(sDrained, sContent)
    /\ sDrainPc = "done" => sDrained = sContent

\* The drain is complete after a call with n = 0 and a call with n > length that has
\* resolved
C9_Witness ==
    /\ sDrainPc = "done"
    /\ Len(sContent) >= 2
    /\ \E id \in 1..Len(sPeeks) :
         /\ sPeeks[id].state = "resolved"
         /\ sPeeks[id].n > Len(sContent)
         /\ ~sPeeks[id].afterDrain
    /\ \E id \in 1..Len(sPeeks) :
         /\ sPeeks[id].n = 0
         /\ ~sPeeks[id].afterDrain

\* C10: every call ExtractFromStream(stream, n) on a stream from which no consumer
\* has read resolves with the first min(n, L) bytes of the content, the first call
\* and every later call alike: no call fails, and a resolved call has that value.
C10_PeekReturnsPrefix ==
    \A id \in 1..Len(sPeeks) :
        (~sPeeks[id].afterDrain /\ ~sErrored) =>
            /\ sPeeks[id].state \in {"waiting", "resolved"}
            /\ sPeeks[id].state = "resolved" =>
                 sPeeks[id].value = Take(sContent, Min(sPeeks[id].n, Len(sContent)))

\* Two sequential calls: call b was made when call a, and no other call, had resolved
Sequential(a, b) ==
    /\ a \in 1..Len(sPeeks) /\ b \in 1..Len(sPeeks)
    /\ sPeeks[b].prior = {a}
    /\ sPeeks[b].state = "resolved"
    /\ ~sPeeks[b].afterDrain

PeekCalled == Len(sPeeks') = Len(sPeeks) + 1

\* C12: ExtractFromStream called on a stream that has been fully consumed fails with
\* 'Stream has ended already' and does not wait, and it fails this way only when no
\* unread byte of the stream remains.
C12_EndedOnlyWhenConsumed ==
    [][PeekCalled =>
         /\ sDrainPc = "done" => sPeeks'[Len(sPeeks')].state = "thrown"
         /\ sPeeks'[Len(sPeeks')].state = "thrown" => (sBuffer = << >> /\ sSource = << >>)
      ]_vars

(***************************************************************************)
(* Claims about the round trip                                             *)
(***************************************************************************)
\* C5: for every provider, once putObject(c, p, data) has resolved, getObjectAsBuffer(c, p)
\* resolves with exactly the bytes of data, for a Buffer, a string and a stream,
\* and for every size including 0 bytes.
C5_RoundTrip ==
    (rGetPc = "settled" /\ rGet.msg # "stream error") =>
        rGet = GetResolved(BodyBytes(rKind, rData))

\* C14: for every provider, putObject(c, 'a/b.txt', '') with the empty string
\* resolves when the backend accepts the upload, and a following listObjects(c, 'a/')
\* that the backend answers returns exactly one entry, the object 'a/b.txt' of size 0.
C14_EmptyStringPutAndList ==
    (rKind = "string" /\ rData = << >>) =>
        /\ (rPutPc = "settled" /\ rPut.err.msg # "backend error") => rPut.state = "resolved"
        /\ rList.state = "resolved" => rList.list = <<[path |-> ObjectPath, size |-> 0]>>

\* C15: putObject on the B2 provider with a stream of undeclared length (of exactly
\* ChunkSize bytes) resolves through the single-file upload, getUploadUrl and then
\* uploadFile; no call of the large-file API (start, part, finish) is ever issued.
C15_StreamUsesSingleFileUpload ==
    /\ \A k \in 1..Len(uCalls) : uCalls[k].op \in {"getUploadUrl", "uploadFile"}
    /\ (IsStream(uData) /\ uPc = "settled") =>
          /\ uPromise = Resolved
          /\ CallsOf("getUploadUrl") # {}
          /\ CallsOf("uploadFile") # {}

\* A key in lower case
ToLowerChar(c) ==
    CASE c = "A" -> "a" [] c = "B" -> "b" [] c = "C" -> "c" [] c = "E" -> "e"
      [] c = "I" -> "i" [] c = "N" -> "n" [] c = "O" -> "o" [] c = "P" -> "p"
      [] c = "T" -> "t" [] c = "X" -> "x" [] c = "Y" -> "y" [] OTHER -> c

ToLower(key) == [i \in 1..Len(key) |-> ToLowerChar(key[i])]

\* The keys of the metadata that spell Content-Type in some letter case
ContentTypeKeys(meta) == { meta[k] : k \in { j \in 1..Len(meta) : ToLower(meta[j]) = ContentTypeLower } }

\* C16: putObject recognises the canonical metadata keys whatever their letter
\* case: a key spelled 'content-type' or 'CONTENT-TYPE' sets the content type of
\* the upload like 'Content-Type' and is not sent as a custom metadata entry.
C16_ContentTypeAnyCase ==
    (CallsOf("uploadFile") # {} /\ ContentTypeKeys(uMetadata) # {}) =>
        /\ RequestArgs(uMetadata).mime = "metadata[Content-Type]"
        /\ \A key \in ContentTypeKeys(uMetadata) :
              InfoPrefix \o key \notin RequestArgs(uMetadata).info

(***************************************************************************)
(* Claims about the containers                                             *)
(***************************************************************************)
\* ensureContainer b was called after ensureContainer a had resolved
EnsuredTwice(a, b) ==
    /\ a \in 1..Len(cOps) /\ b \in 1..Len(cOps)
    /\ cOps[a].op = "ensureContainer" /\ cOps[b].op = "ensureContainer"
    /\ a \in cOps[b].prior

C17_ExistsReportsBackend ==
    \A i \in 1..Len(cOps) :
        (cOps[i].op = "containerExists" /\ cOps[i].saw # "none") =>
            /\ cOps[i].saw = "present" => (cOps[i].state = "resolved" /\ cOps[i].value = "true")
            /\ cOps[i].value = "false" => cOps[i].saw \in {"absent", "forbidden"}
            /\ cOps[i].saw = "error" => cOps[i].state = "rejected"

\* C18: on the Backblaze B2 provider every call of presignedGetUrl and of
\* presignedPutUrl fails synchronously with an error that marks the operation as
\* unsupported, and returns no URL.
C18_PresignedUnsupported ==
    \A i \in 1..Len(cOps) :
        (cProvider = "backblaze-b2" /\ cOps[i].op \in PresignedMethods) =>
            /\ cOps[i].state = "thrown"
            /\ cOps[i].value = "none"
            /\ cOps[i].err = "Unsupported"

\* C26: once the callback of the backend request of an AzureStorageProvider operation
\* has run, whatever the response was, the promise of the operation is settled; after
\* a response that fails the shape check it is rejected.
C26_AzureOperationsSettle ==
    cProvider = "azure" =>
        \A i \in 1..Len(cOps) :
            (cOps[i].op \in ContainerOpKinds /\ cOps[i].pc \notin {"exists", "create", "createIfNotExists"}) =>
                /\ cOps[i].state \in {"resolved", "rejected"}
                /\ cOps[i].pc = "lost" => cOps[i].state = "rejected"

\* C27: on a stream that eventually ends or errors, the promise of every call
\* ExtractFromStream(stream, n), n >= 0, eventually resolves or rejects.
C27_PeekEventuallySettles ==
    \A id \in 1..MaxPeeks :
        (id <= Len(sPeeks) /\ sPeeks[id].state = "waiting")
            ~> (id <= Len(sPeeks) /\ sPeeks[id].state # "waiting")

\* Two calls of ensureContainer that both found the container absent: the second
\* was started before the first had resolved
EnsuredConcurrently(a, b) ==
    /\ a \in 1..Len(cOps) /\ b \in 1..Len(cOps) /\ a # b
    /\ cOps[a].op = "ensureContainer" /\ cOps[b].op = "ensureContainer"
    /\ a \notin cOps[b].prior /\ b \notin cOps[a].prior
    /\ cOps[a].saw = "absent" /\ cOps[b].saw = "absent"

\* C28: two concurrent ensureContainer(name) calls for an absent container both
\* resolve: neither fails because the other created the container between its
\* existence check and its create request.
C28_ConcurrentEnsureResolves ==
    cProvider \in {"aws", "gcs", "backblaze-b2"} =>
        \A a, b \in 1..Len(cOps) :
            (EnsuredConcurrently(a, b) /\ ~cOps[a].faulty /\ ~cOps[b].faulty) =>
                /\ cOps[a].err # "AlreadyExists" /\ cOps[b].err # "AlreadyExists"
                /\ (cOps[a].pc = "settled" /\ cOps[b].pc = "settled") =>
                      (cOps[a].state = "resolved" /\ cOps[b].state = "resolved")

(***************************************************************************)
(* Claims about SMCloudStore.Create                                        *)
(***************************************************************************)
ValidProvider(arg) ==
    arg.type = "string" /\ \E i \in 1..Len(SupportedProviders) : SupportedProviders[i] = arg.value

EmptyConnection(arg) == arg.type \in {"undefined", "null"} \/ arg.keys = 0

\* C19 as stated: Create throws whenever the provider is missing, not a string or
\* not one of Providers(), and whenever the connection is empty; for an identifier
\* of Providers() and a non-empty connection it returns an instance of that provider.
C19_CreateValidates ==
    \A k \in 1..Len(kCalls) :
        LET c == kCalls[k]
        IN  /\ (~ValidProvider(c.provider) \/ EmptyConnection(c.connection)) =>
                   c.result.outcome = "thrown"
            /\ (ValidProvider(c.provider) /\ ~EmptyConnection(c.connection)) =>
                   (c.result.outcome = "instance" /\ c.result.module = c.provider.value)

\* C19 as amended: as stated, but a non-empty connection yields an instance only if
\* the client library of the provider accepts it; otherwise Create throws the error
\* of the library.
C19_CreateValidatesOrLibraryThrows ==
    \A k \in 1..Len(kCalls) :
        LET c == kCalls[k]
        IN  /\ (~ValidProvider(c.provider) \/ EmptyConnection(c.connection)) =>
                   c.result.outcome = "thrown"
            /\ (ValidProvider(c.provider) /\ ~EmptyConnection(c.connection)) =>
                   IF c.provider.value \in ValidatesConnection /\ ~c.connection.accepted
                   THEN c.result = Thrown("client library error")
                   ELSE c.result.outcome = "instance" /\ c.result.module = c.provider.value

\* Create has thrown for an object without keys and has returned an instance
C19_Witness ==
    /\ \E k \in 1..Len(kCalls) :
         /\ ValidProvider(kCalls[k].provider)
         /\ kCalls[k].connection.type = "object" /\ kCalls[k].connection.keys = 0
         /\ kCalls[k].result.outcome = "thrown"
    /\ \E k \in 1..Len(kCalls) : kCalls[k].result.outcome = "instance"

(***************************************************************************)
(* Claims about AzureStorageProvider.listObjects                           *)
(***************************************************************************)
AzureBlobs == SelectSeq(BackendListing(zStore, zPrefix), IsObject)
AzurePrefixes == SelectSeq(BackendListing(zStore, zPrefix), IsPrefix)

\* C23: listObjects resolves only after the blob walk and the prefix walk have both
\* reached a page without continuation token, the resolved list holds every entry of
\* every page of both walks exactly once, and the call rejects if either walk fails.
C23_BothWalksComplete ==
    /\ zPromise.state = "resolved" =>
         /\ \A t \in WalkTypes : zWalk[t].state = "resolved"
         /\ Range(resultList) = Range(BackendListing(zStore, zPrefix))
         /\ Len(resultList) = Len(BackendListing(zStore, zPrefix))
    /\ (\E t \in WalkTypes : zWalk[t].state = "rejected") => zPromise.state = "rejected"

\* Both walks took more than one page and the call has resolved with blobs and prefixes
C23_Witness ==
    /\ zPromise.state = "resolved"
    /\ Len(AzureBlobs) >= 1 /\ Len(AzurePrefixes) >= 1
    /\ Len(BackendListing(zStore, zPrefix)) > zPageSize

\* C29: for fixed container contents listObjects returns the same sequence whatever
\* order the responses of the two walks arrive in, hence the sequence it returns when
\* every blob page arrives before the first prefix page: the blobs, then the prefixes,
\* each in the order of the backend.
C29_ListOrderIndependentOfArrival ==
    zPromise.state = "resolved" => resultList = AzureBlobs \o AzurePrefixes

====
